---- MODULE Spec2Model ----
(***************************************************************************)
(* The include flattener of device_tree_source (src/include.rs), the       *)
(* offset/line arithmetic it uses (src/lib.rs) and the labels of the tree  *)
(* (src/tree.rs).                                                          *)
(*                                                                         *)
(* Bytes are one-character strings (the bytes above 0x7F are written by    *)
(* their hexadecimal names), byte slices are sequences of them, a path is  *)
(* the sequence of the bytes of its name, and the file system `fs`         *)
(* maps the paths that exist to their contents.  Offsets are 0-based as in *)
(* the source; sequence indices are 1-based, so byte k of s is s[k + 1].   *)
(*                                                                         *)
(* The recursion of _include_files is an explicit stack of frames; a       *)
(* failing `?` unwinds it one frame at a time.  A panic (unreachable!(),   *)
(* or an unsigned subtraction below zero, which aborts in the checked      *)
(* builds the tests run under) unwinds the same way with the kind "Panic". *)
(***************************************************************************)
EXTENDS Integers, Sequences, FiniteSets, TLC

VARIABLES fs, stack, err, result

vars == <<fs, stack, err, result>>

(***************************************************************************)
(* Slices                                                                  *)
(***************************************************************************)
Min(a, b) == IF a < b THEN a ELSE b

Take(s, n) == SubSeq(s, 1, n)

Drop(s, n) == SubSeq(s, n + 1, Len(s))

\* FindSubstring: 0-based index of the first occurrence of t in s, or -1.
FindSubstring(s, t) ==
    LET hits == {i \in 0..(Len(s) - Len(t)) : SubSeq(s, i + 1, i + Len(t)) = t}
    IN IF hits = {} THEN -1 ELSE CHOOSE i \in hits : \A j \in hits : i <= j

NL == "\n"

QUOTE == "\""

DIGITS == <<"0", "1", "2", "3", "4", "5", "6", "7", "8", "9">>

DigitVal(c) == (CHOOSE d \in 1..Len(DIGITS) : DIGITS[d] = c) - 1

\* Length of the longest prefix of i whose bytes are all of the class.
PrefixLen(i, class) ==
    LET stops == {k \in 1..Len(i) : i[k] \notin class}
    IN IF stops = {} THEN Len(i)
       ELSE (CHOOSE k \in stops : \A j \in stops : k <= j) - 1

RECURSIVE Number(_)
\* The number a run of ASCII digits writes.
Number(ds) ==
    IF ds = <<>> THEN 0
    ELSE 10 * Number(Take(ds, Len(ds) - 1)) + DigitVal(ds[Len(ds)])

\* 2^64 - 1, the largest u64 and, on the 64-bit targets, usize.
U64_MAX == <<"1", "8", "4", "4", "6", "7", "4", "4", "0", "7",
             "3", "7", "0", "9", "5", "5", "1", "6", "1", "5">>

\* The digits without their leading zeros.
Significant(ds) == Drop(ds, PrefixLen(ds, {"0"}))

\* Whether digit run a writes a number no larger than digit run b does,
\* neither having leading zeros.
AtMost(a, b) ==
    \/ Len(a) < Len(b)
    \/ /\ Len(a) = Len(b)
       /\ \A k \in 1..Len(a) :
              (\A j \in 1..(k - 1) : a[j] = b[j]) => DigitVal(a[k]) <= DigitVal(b[k])

\* usize::from_str / u64::from_str on a run of ASCII digits: Err when the
\* number does not fit.
FromStr(ds) ==
    IF AtMost(Significant(ds), U64_MAX)
    THEN [ok |-> TRUE, val |-> Number(ds)]
    ELSE [ok |-> FALSE, val |-> 0]

\* The bytes above 0x7F of the model: the first byte of a two-byte UTF-8
\* sequence, a continuation byte, and a byte no UTF-8 text holds.
LEAD == "0xC3"

CONT == "0xA9"

NEVER == "0xFF"

RECURSIVE IsUtf8(_)
\* Whether the bytes are UTF-8, as String::from_utf8 decides it for
\* read_to_string.
IsUtf8(s) ==
    IF s = <<>> THEN TRUE
    ELSE IF s[1] \in {CONT, NEVER} THEN FALSE
    ELSE IF s[1] = LEAD THEN Len(s) >= 2 /\ s[2] = CONT /\ IsUtf8(Drop(s, 2))
    ELSE IsUtf8(Drop(s, 1))

(***************************************************************************)
(* Offset / line arithmetic (lib.rs)                                       *)
(***************************************************************************)
\* Positions (0-based) of the newline bytes of s that lie before `limit`.
NewlinesBefore(s, limit) == {p \in 0..(Len(s) - 1) : p < limit /\ s[p + 1] = NL}

SetMax(S) == CHOOSE x \in S : \A y \in S : y <= x

\* The n-th (0-based) element of a finite set of naturals in ascending order,
\* or -1 when there is none: Iterator::nth over the filtered enumeration.
Nth(S, n) ==
    LET at == {x \in S : Cardinality({y \in S : y < x}) = n}
    IN IF at = {} THEN -1 ELSE CHOOSE x \in at : TRUE

\* line_to_byte_offset giving the newline's own offset, not the one past it.
line_to_byte_offset_on_newline(bytes, line) ==
    IF line = 1 THEN [ok |-> TRUE, panic |-> FALSE, val |-> 0]
    ELSE IF line < 2 THEN [ok |-> FALSE, panic |-> TRUE, val |-> 0]
    ELSE LET p == Nth(NewlinesBefore(bytes, Len(bytes)), line - 2)
         IN IF p = -1 THEN [ok |-> FALSE, panic |-> FALSE, val |-> 0]
            ELSE [ok |-> TRUE, panic |-> FALSE, val |-> p]

\* line_to_byte_offset: Ok(0) for line 1, else one past the (line-1)-th
\* newline, Err when there are fewer.  For line = 0 the unsigned `line - 2`
\* goes below zero (panic).
line_to_byte_offset(bytes, line) ==
    IF line = 1 THEN [ok |-> TRUE, panic |-> FALSE, val |-> 0]
    ELSE IF line < 2 THEN [ok |-> FALSE, panic |-> TRUE, val |-> 0]
    ELSE LET p == Nth(NewlinesBefore(bytes, Len(bytes)), line - 2)
         IN IF p = -1 THEN [ok |-> FALSE, panic |-> FALSE, val |-> 0]
            ELSE [ok |-> TRUE, panic |-> FALSE, val |-> p + 1]

\* byte_offset_to_line_col counting a newline at `offset` itself too.
byte_offset_to_line_col_inclusive(bytes, offset) ==
    LET nls == NewlinesBefore(bytes, offset + 1)
    IN IF nls = {} THEN <<1, offset + 1>>
       ELSE <<(Cardinality(nls) - 1) + 2, offset - SetMax(nls)>>

\* byte_offset_to_line_col: the last newline strictly before offset, with
\* its rank, decides line and column.
byte_offset_to_line_col(bytes, offset) ==
    LET nls == NewlinesBefore(bytes, offset)
    IN IF nls = {} THEN <<1, offset + 1>>
       ELSE <<(Cardinality(nls) - 1) + 2, offset - SetMax(nls)>>

(***************************************************************************)
(* nom primitives, as the parsers of include.rs use them.  A result is     *)
(* [st, rem, out] with st one of "Done", "Error", "Incomplete", "Panic".   *)
(***************************************************************************)
Done(rem, out) == [st |-> "Done", rem |-> rem, out |-> out]

Fail(st) == [st |-> st, rem |-> <<>>, out |-> <<>>]

\* tag!(t): the common prefix is compared first, then the length.
Tag(i, t) ==
    LET m == Min(Len(i), Len(t))
    IN IF Take(i, m) # Take(t, m) THEN Fail("Error")
       ELSE IF m < Len(t) THEN Fail("Incomplete")
       ELSE Done(Drop(i, Len(t)), t)

\* char!(c)
Char(i, c) ==
    IF i = <<>> THEN Fail("Incomplete")
    ELSE IF i[1] = c THEN Done(Drop(i, 1), c)
    ELSE Fail("Error")

\* The shape shared by nom's space, multispace and digit: one or more bytes
\* of the class; Incomplete on empty input, Error when the first byte is
\* not of the class.
TakeWhile1(i, class) ==
    IF i = <<>> THEN Fail("Incomplete")
    ELSE IF i[1] \notin class THEN Fail("Error")
    ELSE Done(Drop(i, PrefixLen(i, class)), Take(i, PrefixLen(i, class)))

Space(i) == TakeWhile1(i, {" ", "\t"})

Multispace(i) == TakeWhile1(i, {" ", "\t", "\r", NL})

Digit(i) == TakeWhile1(i, {DIGITS[d] : d \in 1..Len(DIGITS)})

\* line_ending: "\n", else "\r\n".
LineEnding(i) ==
    IF Tag(i, <<NL>>).st = "Error" THEN Tag(i, <<"\r", NL>>) ELSE Tag(i, <<NL>>)

\* The body of a double-quoted C string up to the closing quote, which is
\* left in the input.  Inputs carry no backslash escapes, so the decoded
\* path is the body itself.
\* escape_c_string applied to i, q being the index of the first quote.
StringBody(i, q) ==
    IF q = -1 THEN Fail("Incomplete")
    ELSE IF q = 0 THEN Fail("Error")
    ELSE Done(Drop(i, q), Take(i, q))

escape_c_string(i) == StringBody(i, FindSubstring(i, <<QUOTE>>))

(***************************************************************************)
(* Linemarker recognizer and /include/ recognizer (include.rs)             *)
(***************************************************************************)
HASH == <<"#">>

LINE_TAG == <<"l", "i", "n", "e">>

HASH_SPACE == <<"#", " ">>

HASH_LINE_SPACE == <<"#", "l", "i", "n", "e", " ">>

INCLUDE_TAG == <<"/", "i", "n", "c", "l", "u", "d", "e", "/">>

\* The flag match with the arms of 2 and 3 exchanged.
FlagOf_exchanged(f) ==
    CASE f = 1 -> "Start"
      [] f = 2 -> "System"
      [] f = 3 -> "Return"
      [] f = 4 -> "Extern"
      [] OTHER -> "unreachable"

FlagOf(f) ==
    CASE f = 1 -> "Start"
      [] f = 2 -> "Return"
      [] f = 3 -> "System"
      [] f = 4 -> "Extern"
      [] OTHER -> "unreachable"

\* do_parse!'s sequencing: the first parser's failure is the failure, else
\* the rest runs on its result.
AndThen(r, Rest(_)) == IF r.st = "Done" THEN Rest(r) ELSE Fail(r.st)

\* opt!: an Error becomes None (out = <<>>) with the input untouched; an
\* Incomplete is passed on.
Opt(r, input) == IF r.st = "Error" THEN Done(input, <<>>) ELSE r

\* complete!: an Incomplete becomes an Error.
Complete(r) == IF r.st = "Incomplete" THEN Fail("Error") ELSE r

\* map_res!(.., from_str): a number that does not fit is the parser's
\* Error.  `out` stays the digits; MakeLinemarker takes their value.
Parsed(r) ==
    IF r.st = "Done" /\ ~FromStr(r.out).ok THEN Fail("Error") ELSE r

\* The Linemarker built once the line has parsed; a flag outside 1..4
\* reaches unreachable!().
MakeLinemarker(rem, line, path, flag) ==
    IF flag # <<>> /\ FlagOf(FromStr(flag).val) = "unreachable" THEN Fail("Panic")
    ELSE Done(rem, [child_line |-> FromStr(line).val, path |-> path,
                    flag |-> IF flag = <<>> THEN "None"
                             ELSE FlagOf(FromStr(flag).val)])

\* parse_linemarker: '#' ('line')? SP+ DIGITS SP+ '"' path '"' (SP+ DIGITS)?
\* LINE_END, under complete!.
parse_linemarker(i) ==
    Complete(
    AndThen(Tag(i, HASH), LAMBDA hash :
    AndThen(Opt(Tag(hash.rem, LINE_TAG), hash.rem), LAMBDA word :
    AndThen(Space(word.rem), LAMBDA sp1 :
    AndThen(Parsed(Digit(sp1.rem)), LAMBDA line :
    AndThen(Space(line.rem), LAMBDA sp2 :
    AndThen(Char(sp2.rem, QUOTE), LAMBDA open :
    AndThen(escape_c_string(open.rem), LAMBDA path :
    AndThen(Char(path.rem, QUOTE), LAMBDA close :
    AndThen(Opt(AndThen(Space(close.rem), LAMBDA sp3 : Parsed(Digit(sp3.rem))),
                close.rem),
            LAMBDA flag :
    AndThen(LineEnding(flag.rem), LAMBDA eol :
        MakeLinemarker(eol.rem, line.out, path.out, flag.out))))))))))))

\* The smaller of two find_substring results, -1 being None.
EarliestOf(a, b) == IF a = -1 THEN b ELSE IF b = -1 THEN a ELSE Min(a, b)

SplitAt(input, index) ==
    IF index = -1 THEN Fail("Error")
    ELSE Done(Drop(input, index), Take(input, index))

\* find_linemarker_start: the earliest of "# " and "#line ".
find_linemarker_start(input) ==
    IF Len(HASH_SPACE) > Len(input) THEN Fail("Incomplete")
    ELSE SplitAt(input, EarliestOf(FindSubstring(input, HASH_SPACE),
                                    FindSubstring(input, HASH_LINE_SPACE)))

\* find_linemarker: out is [pre, marker].  A "# " that does not start a
\* well-formed linemarker fails the whole parser.
find_linemarker(i) ==
    AndThen(find_linemarker_start(i), LAMBDA pre :
    AndThen(parse_linemarker(pre.rem), LAMBDA marker :
        Done(marker.rem, [pre |-> pre.out, marker |-> marker.out])))

\* first_linemarker: out is [line, marker], line being the bytes consumed.
first_linemarker(i) ==
    AndThen(parse_linemarker(i), LAMBDA marker :
        Done(marker.rem,
             [line |-> Take(i, Len(i) - Len(marker.rem)), marker |-> marker.out]))

\* parse_include: "/include/" multispace '"' path '"'.
parse_include(i) ==
    AndThen(Tag(i, INCLUDE_TAG), LAMBDA tag :
    AndThen(Multispace(tag.rem), LAMBDA sp :
    AndThen(Char(sp.rem, QUOTE), LAMBDA open :
    AndThen(escape_c_string(open.rem), LAMBDA path :
    AndThen(Char(path.rem, QUOTE), LAMBDA close :
        Done(close.rem, path.out))))))

\* take_until!("/include/")
take_until_include(i) ==
    IF Len(INCLUDE_TAG) > Len(i) THEN Fail("Incomplete")
    ELSE SplitAt(i, FindSubstring(i, INCLUDE_TAG))

\* find_include: out is [pre, file].  The first "/include/" literal decides:
\* when no directive parses there, the parser fails.
find_include(i) ==
    AndThen(take_until_include(i), LAMBDA pre :
    AndThen(parse_include(pre.rem), LAMBDA file :
        Done(file.rem, [pre |-> pre.out, file |-> file.out])))

(***************************************************************************)
(* IncludeBounds (include.rs)                                              *)
(***************************************************************************)
IncludeBounds(path, global_start, child_start, len, method) ==
    [path |-> path, global_start |-> global_start, child_start |-> child_start,
     len |-> len, method |-> method]

start(b) == b.global_start

end(b) == b.global_start + b.len

\* Ord for IncludeBounds: by start, ties by end.
cmp(a, b) ==
    IF start(a) < start(b) THEN "Less"
    ELSE IF start(a) > start(b) THEN "Greater"
    ELSE IF end(a) < end(b) THEN "Less"
    ELSE IF end(a) > end(b) THEN "Greater"
    ELSE "Equal"

\* x put behind every element that is not greater than it.
InsertSorted(sorted, x) ==
    LET after == {k \in 1..Len(sorted) : cmp(x, sorted[k]) = "Less"}
        at == IF after = {} THEN Len(sorted) + 1
              ELSE CHOOSE k \in after : \A j \in after : k <= j
    IN Take(sorted, at - 1) \o <<x>> \o Drop(sorted, at - 1)

RECURSIVE SortFrom(_, _)
SortFrom(sorted, rest) ==
    IF rest = <<>> THEN sorted
    ELSE SortFrom(InsertSorted(sorted, rest[1]), Drop(rest, 1))

\* Vec::sort: stable, by cmp.
sort(bounds) == SortFrom(<<>>, bounds)

\* The loop body shrinking a bound split at its left edge by end - start,
\* the amount it is shifted by.
SplitOne_same_amount(b, start_, end_, offset) ==
    IF start(b) < start_ /\ end(b) >= start_ THEN
        [b |-> [b EXCEPT !.len = start_ - start(b)],
         rem |-> <<IncludeBounds(b.path, end_,
                                 start(b) + start_ - start(b) + offset,
                                 end(b) - start_, b.method)>>,
         panic |-> FALSE]
    ELSE IF start(b) = start_ THEN
        [b |-> [b EXCEPT !.global_start = b.global_start + (end_ - start_),
                         !.len = b.len - (end_ - start_)],
         rem |-> <<>>,
         panic |-> end_ < start_ \/ b.len < end_ - start_]
    ELSE [b |-> b, rem |-> <<>>, panic |-> FALSE]

\* One bound of split_bounds' loop: the bound as it is left, the remainder it
\* adds (at most one), and whether an unsigned subtraction went below zero.
SplitOne(b, start_, end_, offset) ==
    IF start(b) < start_ /\ end(b) >= start_ THEN
        [b |-> [b EXCEPT !.len = start_ - start(b)],
         rem |-> <<IncludeBounds(b.path, end_,
                                 start(b) + start_ - start(b) + offset,
                                 end(b) - start_, b.method)>>,
         panic |-> FALSE]
    ELSE IF start(b) = start_ THEN
        [b |-> [b EXCEPT !.global_start = b.global_start + (end_ - start_),
                         !.len = b.len - offset],
         rem |-> <<>>,
         panic |-> end_ < start_ \/ b.len < offset]
    ELSE [b |-> b, rem |-> <<>>, panic |-> FALSE]

RECURSIVE Remainders(_, _, _, _)
Remainders(bounds, start_, end_, offset) ==
    IF bounds = <<>> THEN <<>>
    ELSE SplitOne(bounds[1], start_, end_, offset).rem
         \o Remainders(Drop(bounds, 1), start_, end_, offset)

\* split_bounds: [panic, bounds]; the bounds as the loop leaves them, then
\* the remainders, sorted.
split_bounds(bounds, start_, end_, offset) ==
    [panic |-> \E k \in 1..Len(bounds) :
                   SplitOne(bounds[k], start_, end_, offset).panic,
     bounds |-> sort([k \in 1..Len(bounds) |->
                          SplitOne(bounds[k], start_, end_, offset).b]
                     \o Remainders(bounds, start_, end_, offset))]

\* The comparator taking a bound's end to lie within the bound.
Comparator_closed(b, offset) ==
    IF start(b) <= offset /\ end(b) >= offset THEN "Equal"
    ELSE IF start(b) > offset /\ end(b) > offset THEN "Greater"
    ELSE IF start(b) <= offset /\ end(b) <= offset THEN "Less"
    ELSE "unreachable"

\* The comparator of get_bounds_containing_offset.
Comparator(b, offset) ==
    IF start(b) <= offset /\ end(b) > offset THEN "Equal"
    ELSE IF start(b) > offset /\ end(b) > offset THEN "Greater"
    ELSE IF start(b) <= offset /\ end(b) <= offset THEN "Less"
    ELSE "unreachable"

RECURSIVE BinarySearchBase(_, _, _, _)
\* The loop of slice::binary_search_by: halve `size` keeping `base`.
BinarySearchBase(bounds, offset, base, size) ==
    IF size <= 1 THEN base
    ELSE LET half == size \div 2
             mid == base + half
         IN BinarySearchBase(bounds, offset,
                IF Comparator(bounds[mid + 1], offset) = "Greater" THEN base ELSE mid,
                size - half)

\* get_bounds_containing_offset: the 1-based index of the bound found, or 0
\* for NotWithinBounds.
get_bounds_containing_offset(bounds, offset) ==
    IF bounds = <<>> THEN 0
    ELSE LET base == BinarySearchBase(bounds, offset, 0, Len(bounds))
         IN IF Comparator(bounds[base + 1], offset) = "Equal" THEN base + 1 ELSE 0

\* file_line_from_global past its bounds check: the DTS and CPP lookups.
LineColWithin(files, b, global_buffer, offset) ==
    IF b.path \notin DOMAIN files THEN [st |-> "IOError", val |-> <<0, 0>>]
    ELSE IF b.method = "DTS" THEN
        [st |-> "Ok",
         val |-> byte_offset_to_line_col(files[b.path],
                                         offset - b.global_start + b.child_start)]
    ELSE LET g == byte_offset_to_line_col(global_buffer, offset)
             s == byte_offset_to_line_col(global_buffer, b.global_start)
             c == byte_offset_to_line_col(files[b.path], b.child_start)
             line == g[1] - s[1] + c[1]
             sameLine == g[1] = s[1]
             col == IF sameLine THEN g[2] - s[2] - c[2] + 2 ELSE g[2] - c[2] + 1
             below == \/ g[1] < s[1]
                      \/ sameLine /\ (g[2] < s[2] \/ g[2] - s[2] < c[2])
                      \/ ~sameLine /\ g[2] < c[2]
         IN IF below THEN [st |-> "Panic", val |-> <<0, 0>>]
            ELSE [st |-> "Ok", val |-> <<line, col>>]

\* The lookup with the lower edge of the bound left out of it.
file_line_from_global_open_start(files, b, global_buffer, offset) ==
    IF ~(offset > b.global_start /\ offset < end(b)) THEN
        [st |-> "NotWithinBounds", val |-> <<0, 0>>]
    ELSE LineColWithin(files, b, global_buffer, offset)

\* file_line_from_global: [st, val] with st "Ok", "NotWithinBounds",
\* "IOError" or "Panic" (an unsigned subtraction below zero) and val the
\* (line, col) pair.
file_line_from_global(files, b, global_buffer, offset) ==
    IF ~(offset >= b.global_start /\ offset < end(b)) THEN
        [st |-> "NotWithinBounds", val |-> <<0, 0>>]
    ELSE LineColWithin(files, b, global_buffer, offset)

(***************************************************************************)
(* Errors: [kind, path]                                                    *)
(***************************************************************************)
NoError == [kind |-> "none", path |-> <<>>]

Error(kind, path) == [kind |-> kind, path |-> path]

\* child_start of a bound opened by an embedded linemarker: the line's
\* offset in the marker's file, 0 when the file cannot be opened.
MarkerChildStart(files, marker) ==
    IF marker.path \in DOMAIN files
    THEN line_to_byte_offset(files[marker.path], marker.child_line)
    ELSE [ok |-> TRUE, panic |-> FALSE, val |-> 0]

Stop(e, bounds) == [again |-> FALSE, err |-> e, bounds |-> bounds, buf |-> <<>>]

\* The most recent bound ended where the marker begins.
CutLast(bounds, found) ==
    [bounds EXCEPT ![Len(bounds)].len = Len(found.out.pre)]

\* The bound a marker opens, `cs` being its child_start computation; the
\* most recent bound has been cut by then, also when cs fails.
MarkerBound(found, cs, bounds, end_offset) ==
    IF cs.panic THEN Stop(Error("Panic", <<>>), CutLast(bounds, found))
    ELSE IF ~cs.ok THEN Stop(Error("ParseError", <<>>), CutLast(bounds, found))
    ELSE [again |-> TRUE, err |-> NoError,
          bounds |-> CutLast(bounds, found)
                     \o <<IncludeBounds(found.out.marker.path,
                                        end_offset - Len(found.rem),
                                        cs.val, Len(found.rem), "CPP")>>,
          buf |-> found.rem]

\* One turn of the loop of parse_linemarkers, `found` being the result of
\* find_linemarker on what is left of buf: [again, err, bounds, buf].
LinemarkerStep(files, found, bounds, end_offset) ==
    IF found.st = "Panic" THEN Stop(Error("Panic", <<>>), bounds)
    ELSE IF found.st # "Done" THEN Stop(NoError, bounds)
    ELSE IF bounds = <<>> THEN Stop(Error("Panic", <<>>), bounds)
    ELSE IF bounds[Len(bounds)].method # "CPP" THEN
        Stop(Error("LinemarkerInDtsi", bounds[Len(bounds)].path), bounds)
    ELSE MarkerBound(found, MarkerChildStart(files, found.out.marker),
                     bounds, end_offset)

RECURSIVE LinemarkerLoop(_, _, _)
\* The loop of parse_linemarkers, `step` being its last turn.
LinemarkerLoop(files, step, end_offset) ==
    IF step.again
    THEN LinemarkerLoop(files,
                        LinemarkerStep(files, find_linemarker(step.buf),
                                       step.bounds, end_offset),
                        end_offset)
    ELSE step

\* parse_linemarkers(buf, bounds, global_offset)
parse_linemarkers(files, buf, bounds, global_offset) ==
    LinemarkerLoop(files,
                   [again |-> TRUE, err |-> NoError, bounds |-> bounds, buf |-> buf],
                   global_offset + Len(buf))

(***************************************************************************)
(* Input files                                                             *)
(***************************************************************************)
MaxSegs == 3

\* The calls of _include_files that can be active at once before the
\* process runs out of descriptors or of stack, whichever comes first.
MaxDepth == 4

ROOT == <<"r">>

B == <<"b">>

C == <<"c">>

S == <<"s">>

U == <<"u">>

M == <<"m">>

\* `/include/ "p"`
Directive(p) == INCLUDE_TAG \o <<" ", QUOTE>> \o p \o <<QUOTE>>

\* `# n "p"` and a newline
MarkerLine(n, p) == <<"#", " ", n, " ", QUOTE>> \o p \o <<QUOTE, NL>>

\* What a root file is made of: text, a directive for b, a directive for a
\* file that does not exist, a linemarker for line 2 of s, a linemarker for
\* a file that does not exist, and an "/include/" literal no directive
\* follows.
Fragments ==
    << <<"a", NL>>,
       Directive(B),
       Directive(M),
       MarkerLine("2", S),
       MarkerLine("1", U),
       INCLUDE_TAG \o <<"x">> >>

RECURSIVE Concat(_)
Concat(segs) == IF segs = <<>> THEN <<>> ELSE segs[1] \o Concat(Drop(segs, 1))

\* The roots made of up to MaxSegs fragments, and two that hold bytes above
\* 0x7F: one that is UTF-8 and one that is not.
RootFiles ==
    UNION {{Concat([k \in 1..n |-> Fragments[pick[k]]]) :
               pick \in [1..n -> 1..Len(Fragments)]} : n \in 0..MaxSegs}
        \cup {<<LEAD, CONT, NL>>, <<NEVER>>}

\* b: plain; including c between bytes; starting with a linemarker; with a
\* linemarker on its second line; empty; including a file that does not
\* exist; including itself; including the root, which may include b; ending
\* in the middle of a UTF-8 sequence.
BFiles ==
    { <<"p", NL>>,
      <<"p">> \o Directive(C) \o <<"q">>,
      MarkerLine("2", S) \o <<"k">>,
      <<"k", NL>> \o MarkerLine("2", S),
      <<>>,
      <<"p">> \o Directive(M) \o <<"q">>,
      <<"p">> \o Directive(B),
      <<"p">> \o Directive(ROOT),
      <<"p", LEAD>> }

CFile == <<"z", NL>>

SFile == <<"x", NL, "y", NL>>

FileSystem(r, b) == (ROOT :> r) @@ (B :> b) @@ (C :> CFile) @@ (S :> SFile)

FileSystems == {FileSystem(r, b) : r \in RootFiles, b \in BFiles}

(***************************************************************************)
(* include_files: the recursion of _include_files as a stack of frames     *)
(***************************************************************************)
Frame(path, main_offset) ==
    [path |-> path, main_offset |-> main_offset, pc |-> "open",
     buffer |-> <<>>, bounds |-> <<>>, buf |-> <<>>,
     offset |-> 0, rem |-> <<>>, eaten_len |-> 0]

Running == [status |-> "running", err |-> NoError, buffer |-> <<>>, bounds |-> <<>>]

Init ==
    /\ fs \in FileSystems
    /\ stack = <<Frame(ROOT, 0)>>
    /\ err = NoError
    /\ result = Running

Top == stack[Len(stack)]

Active == stack # <<>> /\ err = NoError

SetTop(f) == [stack EXCEPT ![Len(stack)] = f]

StartFailed(kind, content) ==
    [err |-> Error(kind, <<>>), bound |-> IncludeBounds(<<>>, 0, 0, 0, "DTS"),
     buffer |-> <<>>, buf |-> content]

\* The CPP start bound, `cs` being line_to_byte_offset on the marker's file.
CppStartBound(files, content, first, cs) ==
    IF cs.panic THEN StartFailed("Panic", content)
    ELSE IF ~cs.ok THEN StartFailed("ParseError", content)
    ELSE [err |-> NoError,
          bound |-> IncludeBounds(first.out.marker.path,
                                  Len(content) - Len(first.rem),
                                  cs.val, Len(files[first.out.marker.path]), "CPP"),
          buffer |-> first.out.line,
          buf |-> first.rem]

\* The start bound of a file, `first` being first_linemarker on its
\* content: [err, bound, buffer, buf].
StartBoundOf(files, path, main_offset, content, first) ==
    IF first.st = "Panic" THEN StartFailed("Panic", content)
    ELSE IF first.st = "Done" THEN
        IF first.out.marker.path \notin DOMAIN files
        THEN StartFailed("IOError", content)
        ELSE CppStartBound(files, content, first,
                           line_to_byte_offset(files[first.out.marker.path],
                                               first.out.marker.child_line))
    ELSE [err |-> NoError,
          bound |-> IncludeBounds(path, main_offset, 0, Len(files[path]), "DTS"),
          buffer |-> <<>>,
          buf |-> content]

\* file.read_to_string(..)? and the start bound: a file that is not UTF-8
\* fails the read with an io::Error.
StartBound(files, path, main_offset, content) ==
    IF ~IsUtf8(content) THEN StartFailed("IOError", content)
    ELSE StartBoundOf(files, path, main_offset, content, first_linemarker(content))

\* File::open(path)? fails: the path does not exist, or, every call below
\* keeping its file open, the process may have no descriptor left for the
\* MaxDepth-th.
OpenFail ==
    /\ Active
    /\ Top.pc = "open"
    /\ Top.path \notin DOMAIN fs \/ Len(stack) >= MaxDepth
    /\ err' = Error("IOError", Top.path)
    /\ UNCHANGED <<fs, stack, result>>

\* The start of a call that pushes no start bound for a file with nothing
\* in it.
Started_unbound_when_empty(sb) ==
    IF sb.err # NoError
    THEN err' = sb.err /\ UNCHANGED stack
    ELSE /\ stack' = SetTop([Top EXCEPT !.pc = "scan",
                                         !.buffer = sb.buffer,
                                         !.bounds = IF sb.buffer \o sb.buf = <<>>
                                                    THEN <<>> ELSE <<sb.bound>>,
                                         !.buf = sb.buf])
         /\ UNCHANGED err

\* The call past its start bound: the bound pushed, the leading linemarker
\* line, if any, moved to the buffer.
Started(sb) ==
    IF sb.err # NoError
    THEN err' = sb.err /\ UNCHANGED stack
    ELSE /\ stack' = SetTop([Top EXCEPT !.pc = "scan",
                                         !.buffer = sb.buffer,
                                         !.bounds = <<sb.bound>>,
                                         !.buf = sb.buf])
         /\ UNCHANGED err

\* The file is read and its start bound pushed.
OpenFile ==
    /\ Active
    /\ Top.pc = "open"
    /\ Top.path \in DOMAIN fs
    /\ Started(StartBound(fs, Top.path, Top.main_offset, fs[Top.path]))
    /\ UNCHANGED <<fs, result>>

\* The frame as the recursive call leaves it, and the callee's frame.
Call(found, lm) ==
    IF lm.err # NoError
    THEN err' = lm.err /\ UNCHANGED stack
    ELSE /\ stack' = SetTop([Top EXCEPT
                               !.pc = "call",
                               !.buffer = Top.buffer \o found.out.pre,
                               !.bounds = lm.bounds,
                               !.offset = Len(found.out.pre),
                               !.rem = found.rem,
                               !.eaten_len = (Len(Top.buf) - Len(found.out.pre))
                                             - Len(found.rem)])
                     \o <<Frame(found.out.file,
                                Len(Top.buffer \o found.out.pre) + Top.main_offset)>>
         /\ UNCHANGED err

\* The linemarker pass on what precedes the directive found returns Ok.
PassSucceeds(found) ==
    /\ found.st = "Done"
    /\ parse_linemarkers(fs, found.out.pre, Top.bounds, Len(Top.buffer)).err = NoError

Included(found) ==
    /\ found.st = "Done"
    /\ Call(found, parse_linemarkers(fs, found.out.pre, Top.bounds, Len(Top.buffer)))

\* One turn of the include loop up to the recursive call: the linemarker
\* pass on pre, pre appended, and the call of _include_files.
Include ==
    /\ Active
    /\ Top.pc = "scan"
    /\ Len(stack) < MaxDepth \/ ~PassSucceeds(find_include(Top.buf))
    /\ Included(find_include(Top.buf))
    /\ UNCHANGED <<fs, result>>

\* The recursive call finds the thread's stack, which has room for MaxDepth
\* frames of _include_files, used up: the process is aborted and
\* include_files returns nothing.  No acyclic input of the model nests this
\* deep.
StackOverflow ==
    /\ Active
    /\ Top.pc = "scan"
    /\ Len(stack) >= MaxDepth
    /\ find_include(Top.buf).st = "Done"
    /\ PassSucceeds(find_include(Top.buf))
    /\ result' = [status |-> "Aborted", err |-> Error("StackOverflow", Top.path),
                  buffer |-> <<>>, bounds |-> <<>>]
    /\ stack' = <<>>
    /\ UNCHANGED <<fs, err>>

Tailed(lm) ==
    IF lm.err # NoError
    THEN err' = lm.err /\ UNCHANGED stack
    ELSE /\ stack' = SetTop([Top EXCEPT !.pc = "ret",
                                         !.buffer = Top.buffer \o Top.buf,
                                         !.bounds = lm.bounds,
                                         !.buf = <<>>])
         /\ UNCHANGED err

\* No further include: the linemarker pass on the tail, the tail appended.
TailStep ==
    /\ Active
    /\ Top.pc = "scan"
    /\ find_include(Top.buf).st # "Done"
    /\ Tailed(parse_linemarkers(fs, Top.buf, Top.bounds, Len(Top.buffer)))
    /\ UNCHANGED <<fs, result>>

Spliced(parent, sub_buf, sub_bounds, sp) ==
    IF sp.panic THEN [err |-> Error("Panic", <<>>), frame |-> parent]
    ELSE [err |-> NoError,
          frame |-> [parent EXCEPT !.pc = "scan",
                                   !.buffer = parent.buffer \o sub_buf,
                                   !.bounds = sort(sp.bounds \o sub_bounds),
                                   !.buf = parent.rem]]

\* What the caller does with Ok((sub_buf, sub_bounds)): [err, frame].
Splice(parent, sub_buf, sub_bounds) ==
    IF sub_bounds = <<>>
    THEN [err |-> Error("NoBoundReturned", <<>>), frame |-> parent]
    ELSE Spliced(parent, sub_buf, sub_bounds,
                 split_bounds(parent.bounds,
                              sub_bounds[1].global_start,
                              end(sub_bounds[Len(sub_bounds)]),
                              parent.eaten_len))

Returned(sp) ==
    /\ stack' = Take(stack, Len(stack) - 2) \o <<sp.frame>>
    /\ err' = sp.err

\* A recursive call returns Ok to its caller, which splices the result in.
Return ==
    /\ Active
    /\ Top.pc = "ret"
    /\ Len(stack) > 1
    /\ Returned(Splice(stack[Len(stack) - 1], Top.buffer, Top.bounds))
    /\ UNCHANGED <<fs, result>>

\* The outermost call returns Ok((buffer, bounds)).
Finish ==
    /\ Active
    /\ Top.pc = "ret"
    /\ Len(stack) = 1
    /\ result' = [status |-> "Ok", err |-> NoError,
                  buffer |-> Top.buffer, bounds |-> Top.bounds]
    /\ stack' = <<>>
    /\ UNCHANGED <<fs, err>>

\* The outermost frame turning an error into what it had flattened so far.
Propagate_recovered ==
    /\ stack # <<>>
    /\ err # NoError
    /\ stack' = Take(stack, Len(stack) - 1)
    /\ result' = IF Len(stack) = 1
                 THEN [status |-> "Ok", err |-> NoError,
                       buffer |-> stack[1].buffer, bounds |-> stack[1].bounds]
                 ELSE result
    /\ UNCHANGED <<fs, err>>

\* `?`: a frame returns the error to its caller and its buffer and bounds
\* are dropped; the outermost frame returns it from include_files.
Propagate ==
    /\ stack # <<>>
    /\ err # NoError
    /\ stack' = Take(stack, Len(stack) - 1)
    /\ result' = IF Len(stack) = 1
                 THEN [status |-> IF err.kind = "Panic" THEN "Panic" ELSE "Err",
                       err |-> err, buffer |-> <<>>, bounds |-> <<>>]
                 ELSE result
    /\ UNCHANGED <<fs, err>>

Next ==
    \/ OpenFail
    \/ OpenFile
    \/ Include
    \/ StackOverflow
    \/ TailStep
    \/ Return
    \/ Finish
    \/ Propagate

Spec == Init /\ [][Next]_vars

\* The steps that read a file or scan a buffer, and the states in which one
\* of them can be taken.
Parsing == OpenFile \/ Include \/ StackOverflow \/ TailStep \/ Return

CanParse ==
    /\ Active
    /\ \/ Top.pc = "open" /\ Top.path \in DOMAIN fs
       \/ Top.pc = "scan"
       \/ Top.pc = "ret" /\ Len(stack) > 1

\* include_files runs on one thread with nothing to wait for: a step that
\* can be taken is taken.  This is weak fairness of every step, that of the
\* parsing steps with their enabling condition, CanParse, written out.
LiveSpec ==
    /\ Spec
    /\ WF_vars(OpenFail)
    /\ WF_vars(Finish)
    /\ WF_vars(Propagate)
    /\ []<>(~CanParse) \/ []<><<Parsing>>_vars

(***************************************************************************)
(* Properties of the value include_files returns                           *)
(***************************************************************************)
ResultOk == result.status = "Ok"

Returned_ == result.status # "running"

RECURSIVE SumLen(_)
SumLen(bounds) ==
    IF bounds = <<>> THEN 0 ELSE bounds[1].len + SumLen(Drop(bounds, 1))

\* The bounds whose interval [global_start, end) holds offset k.
Containing(bounds, k) ==
    {i \in 1..Len(bounds) : start(bounds[i]) <= k /\ k < end(bounds[i])}

\* C1: whenever include_files returns Ok((buffer, bounds)), the lens of the
\* bounds add up to buffer.len().
C1_SumOfLens == ResultOk => SumLen(result.bounds) = Len(result.buffer)

\* C2: whenever include_files returns Ok, consecutive bounds are in ascending
\* order of global_start, ties in ascending order of end, and the earlier
\* one ends no later than the later one starts.
C2_SortedNonOverlapping ==
    ResultOk =>
        \A i \in 1..(Len(result.bounds) - 1) :
            /\ cmp(result.bounds[i], result.bounds[i + 1]) \in {"Less", "Equal"}
            /\ end(result.bounds[i]) <= start(result.bounds[i + 1])

\* C3: whenever include_files returns Ok, every offset of the buffer lies in
\* exactly one bound, get_bounds_containing_offset finds it, and no bound
\* ends past buffer.len().
C3_Coverage ==
    ResultOk =>
        /\ \A k \in 0..(Len(result.buffer) - 1) :
               /\ Cardinality(Containing(result.bounds, k)) = 1
               /\ get_bounds_containing_offset(result.bounds, k)
                      \in Containing(result.bounds, k)
        /\ \A i \in 1..Len(result.bounds) : end(result.bounds[i]) <= Len(result.buffer)

(***************************************************************************)
(* What flattening is to produce, told position by position: a directive   *)
(* that starts at a position is replaced by its file, flattened; any other *)
(* byte is copied.  Each entry keeps the file and offset its byte is from. *)
(***************************************************************************)
RECURSIVE RefFrom(_, _, _), RefAt(_, _, _, _), RefFile(_, _)
RefFrom(files, path, pos) ==
    IF pos >= Len(files[path]) THEN <<>>
    ELSE RefAt(files, path, pos, parse_include(Drop(files[path], pos)))

RefAt(files, path, pos, directive) ==
    IF directive.st = "Done"
    THEN RefFile(files, directive.out)
         \o RefFrom(files, path, Len(files[path]) - Len(directive.rem))
    ELSE <<[byte |-> files[path][pos + 1], path |-> path, pos |-> pos]>>
         \o RefFrom(files, path, pos + 1)

\* A file that does not exist leaves one entry with pos = -1.
RefFile(files, path) ==
    IF path \in DOMAIN files THEN RefFrom(files, path, 0)
    ELSE <<[byte |-> "", path |-> path, pos |-> -1]>>

RefDefined(ref) == \A k \in 1..Len(ref) : ref[k].pos >= 0

RefBytes(ref) == [k \in 1..Len(ref) |-> ref[k].byte]

\* No "/include/" literal and no '#'.
IsPlain(s) == FindSubstring(s, INCLUDE_TAG) = -1 /\ FindSubstring(s, HASH) = -1

HasDirective(s) == \E n \in 0..Len(s) : parse_include(Drop(s, n)).st = "Done"

HasLinemarker(s) == \E n \in 0..Len(s) : parse_linemarker(Drop(s, n)).st = "Done"

\* s is plain bytes, then at offset n a directive, then plain bytes.
OneInclude(s, n) ==
    /\ IsPlain(Take(s, n))
    /\ parse_include(Drop(s, n)).st = "Done"
    /\ IsPlain(parse_include(Drop(s, n)).rem)

TargetAt(s, n) == parse_include(Drop(s, n)).out

TailAt(s, n) == parse_include(Drop(s, n)).rem

\* C4: the buffer returned is the root's bytes with every directive replaced
\* by the flattened bytes of the file it names.
C4_BufferIsFlattenedRoot ==
    (ResultOk /\ RefDefined(RefFile(fs, ROOT)))
        => result.buffer = RefBytes(RefFile(fs, ROOT))

\* The three bounds C5 names for pre + directive + tail, the directive
\* starting at offset n of the root.
E1Bounds(root, n, target, targetLen) ==
    << IncludeBounds(ROOT, 0, 0, n, "DTS"),
       IncludeBounds(target, n, 0, targetLen, "DTS"),
       IncludeBounds(ROOT, n + targetLen,
                     Len(root) - Len(TailAt(root, n)),
                     Len(TailAt(root, n)), "DTS") >>

\* C5: a root pre + directive + tail (pre not empty, no linemarkers) whose
\* one directive names a non-empty file without includes and linemarkers
\* gives exactly the three DTS bounds (root, 0, 0, |pre|), (target, |pre|,
\* 0, |target|), (root, |pre| + |target|, |pre| + |directive|, |tail|).
C5_ThreeBounds ==
    Returned_ =>
        \A n \in 1..Len(fs[ROOT]) :
            (/\ OneInclude(fs[ROOT], n)
             /\ TargetAt(fs[ROOT], n) \in DOMAIN fs
             /\ fs[TargetAt(fs[ROOT], n)] # <<>>
             /\ IsPlain(fs[TargetAt(fs[ROOT], n)]))
            => /\ ResultOk
               /\ result.bounds = E1Bounds(fs[ROOT], n, TargetAt(fs[ROOT], n),
                                           Len(fs[TargetAt(fs[ROOT], n)]))

NoIncludeNoLinemarker == ~HasDirective(fs[ROOT]) /\ ~HasLinemarker(fs[ROOT])

\* C6: a root with no directive and no linemarker (a UTF-8 file, as every
\* input file is to be) comes back unchanged with the single bound (DTS,
\* root, 0, 0, file size), and file_line_from_global on that bound agrees
\* with byte_offset_to_line_col on the file at every offset of the file.
C6_SingleDtsBound ==
    (Returned_ /\ NoIncludeNoLinemarker /\ IsUtf8(fs[ROOT])) =>
        /\ ResultOk
        /\ result.buffer = fs[ROOT]
        /\ result.bounds = <<IncludeBounds(ROOT, 0, 0, Len(fs[ROOT]), "DTS")>>
        /\ \A k \in 0..(Len(fs[ROOT]) - 1) :
               file_line_from_global(fs, result.bounds[1], result.buffer, k)
                   = [st |-> "Ok", val |-> byte_offset_to_line_col(fs[ROOT], k)]

\* C6 witness: a root of several lines with no directive and no linemarker
\* has been flattened.
C6_Witness ==
    /\ ResultOk
    /\ NoIncludeNoLinemarker
    /\ Cardinality(NewlinesBefore(fs[ROOT], Len(fs[ROOT]))) >= 2
    /\ Len(result.bounds) = 1

\* root -> b -> c, each directive between plain bytes, c plain.
Chain ==
    /\ \E n \in 1..Len(fs[ROOT]) :
           /\ OneInclude(fs[ROOT], n)
           /\ TargetAt(fs[ROOT], n) = B
           /\ TailAt(fs[ROOT], n) # <<>>
    /\ \E n \in 1..Len(fs[B]) :
           /\ OneInclude(fs[B], n)
           /\ TargetAt(fs[B], n) = C
           /\ TailAt(fs[B], n) # <<>>
    /\ IsPlain(fs[C])

\* What C7 says of offset k, `i` being the bound the lookup finds and
\* `from` the file and offset byte k was copied from.
LookupIsRight(k, i, from) ==
    /\ i # 0
    /\ result.bounds[i].path = from.path
    /\ file_line_from_global(fs, result.bounds[i], result.buffer, k)
           = [st |-> "Ok", val |-> byte_offset_to_line_col(fs[from.path], from.pos)]
    /\ (k - result.bounds[i].global_start) + result.bounds[i].child_start = from.pos

\* C7: for a chain root -> b -> c three levels deep, every offset of the
\* buffer is looked up to the file its byte was copied from, at the line and
\* column (and the offset) the byte has in that file.
C7_ChainLookup ==
    (Returned_ /\ Chain) =>
        /\ ResultOk
        /\ \A k \in 0..(Len(result.buffer) - 1) :
               LookupIsRight(k, get_bounds_containing_offset(result.bounds, k),
                             RefFile(fs, ROOT)[k + 1])

\* The root reaches, after plain bytes, a directive for a file that holds a
\* well-formed linemarker.
EntersMarkedInclude ==
    \E n \in 0..Len(fs[ROOT]) :
        /\ IsPlain(Take(fs[ROOT], n))
        /\ parse_include(Drop(fs[ROOT], n)).st = "Done"
        /\ TargetAt(fs[ROOT], n) \in DOMAIN fs
        /\ HasLinemarker(fs[TargetAt(fs[ROOT], n)])

\* C8: when a file entered through a directive holds a well-formed
\* linemarker, on its first line or later, include_files fails with
\* LinemarkerInDtsi.
C8_LinemarkerInDtsi ==
    (Returned_ /\ EntersMarkedInclude) =>
        result.status = "Err" /\ result.err.kind = "LinemarkerInDtsi"

\* A frame is about to open a file that does not exist.
OpenFails == Active /\ Top.pc = "open" /\ Top.path \notin DOMAIN fs

NoOutput(e) == [status |-> "Err", err |-> e, buffer |-> <<>>, bounds |-> <<>>]

\* C9: when the open of the root, or of a file a directive names at any
\* depth, fails, the failure is an IOError; from then on the error stays,
\* no caller resumes, and include_files returns Err(IOError) with no buffer
\* and no bounds, whatever had been flattened before.
C9_IOErrorNoPartialOutput ==
    [][/\ OpenFails => err' = Error("IOError", Top.path)
       /\ err.kind = "IOError" =>
              /\ err' = err
              /\ Len(stack') < Len(stack)
              /\ result' = IF stack' = <<>> THEN NoOutput(err) ELSE Running]_vars

\* C9 witness: the root's leading bytes were flattened, then the file it
\* includes named a file that does not exist, two levels down, and
\* include_files has returned.
C9_Witness ==
    /\ result = NoOutput(Error("IOError", M))
    /\ Take(fs[ROOT], 2) = <<"a", NL>>
    /\ FindSubstring(fs[ROOT], Directive(M)) = -1
    /\ FindSubstring(fs[B], Directive(M)) > 0

RECURSIVE LeadingMarkers(_)
LeadingMarkers(lm) ==
    IF lm.st = "Done"
    THEN <<lm.out>> \o LeadingMarkers(parse_linemarker(lm.rem))
    ELSE <<>>

RECURSIVE AfterMarkers(_, _)
AfterMarkers(s, lm) ==
    IF lm.st = "Done" THEN AfterMarkers(lm.rem, parse_linemarker(lm.rem)) ELSE s

\* The root is `markers`, one per line, then `content`: plain and not empty;
\* the first marker names a line of a file that exists.
MarkedRoot(markers, content) ==
    /\ markers # <<>>
    /\ content # <<>>
    /\ IsPlain(content)
    /\ markers[1].path \in DOMAIN fs
    /\ markers[1].child_line >= 1
    /\ line_to_byte_offset(fs[markers[1].path], markers[1].child_line).ok

\* What C10 says of the bounds returned.
MarkerBounds(markers, content, last) ==
    /\ Len(result.bounds) = Len(markers)
    /\ \A i \in 1..Len(result.bounds) :
           /\ i <= Len(markers)
           /\ result.bounds[i].method = "CPP"
           /\ result.bounds[i].path = markers[i].path
    /\ last.path \in DOMAIN fs =>
           result.bounds[Len(result.bounds)].child_start
               = line_to_byte_offset(fs[last.path], last.child_line).val
    /\ last.child_line = 1 => result.bounds[Len(result.bounds)].child_start = 0
    /\ start(result.bounds[Len(result.bounds)])
           = Len(result.buffer) - Len(content)
    /\ end(result.bounds[Len(result.bounds)]) = Len(result.buffer)
    /\ \A k \in 0..(Len(result.buffer) - 1) : Containing(result.bounds, k) # {}
    /\ \A i \in 1..Len(result.bounds) : end(result.bounds[i]) <= Len(result.buffer)

MarkedRootResult(markers, content) ==
    MarkedRoot(markers, content) =>
        ResultOk /\ MarkerBounds(markers, content, markers[Len(markers)])

\* C10: for a root of k >= 1 linemarker lines and then content with no
\* linemarker and no directive, include_files returns k CPP bounds in marker
\* order; the last has the last marker's path, the offset of the marker's
\* line as child_start (0 for line 1) and covers exactly the content; and
\* the bounds together cover [0, buffer.len()) and nothing more.
C10_LeadingLinemarkers ==
    Returned_ =>
        MarkedRootResult(LeadingMarkers(parse_linemarker(fs[ROOT])),
                         AfterMarkers(fs[ROOT], parse_linemarker(fs[ROOT])))

(***************************************************************************)
(* The functions of the library called on their own.  The stack holds the  *)
(* one call to make, `result` what it returned together with the call.     *)
(***************************************************************************)
MaxBytes == 3

RECURSIVE SeqsUpTo(_, _)
\* The sequences over `alphabet` of length 0..n.
SeqsUpTo(alphabet, n) ==
    IF n = 0 THEN {<<>>}
    ELSE SeqsUpTo(alphabet, n - 1)
         \cup {Append(q, x) : q \in {r \in SeqsUpTo(alphabet, n - 1) : Len(r) = n - 1},
                              x \in alphabet}

\* Byte sequences of text and newlines.
LineBytes == SeqsUpTo({"a", NL}, MaxBytes)

LineCalls ==
    {[op |-> "line_to_byte_offset", bytes |-> q, line |-> n] :
        q \in LineBytes, n \in 0..(MaxBytes + 2)}

OffsetCalls ==
    {[op |-> "byte_offset_to_line_col", bytes |-> q, offset |-> k] :
        q \in LineBytes, k \in 0..(MaxBytes + 1)}

Return_(call, val) == [status |-> "returned", call |-> call, val |-> val]

\* line_to_byte_offset(bytes, line) is called and returns.
LineToByteOffset ==
    /\ Active
    /\ Top.op = "line_to_byte_offset"
    /\ result' = Return_(Top, line_to_byte_offset(Top.bytes, Top.line))
    /\ stack' = <<>>
    /\ UNCHANGED <<fs, err>>

\* byte_offset_to_line_col(bytes, offset) is called and returns.
ByteOffsetToLineCol ==
    /\ Active
    /\ Top.op = "byte_offset_to_line_col"
    /\ result' = Return_(Top, byte_offset_to_line_col(Top.bytes, Top.offset))
    /\ stack' = <<>>
    /\ UNCHANGED <<fs, err>>

MaxOff == 2

\* The bounds split_bounds is called on: of either method, anywhere near the
\* split, of any child_start, empty ones among them.
SplitBound ==
    {IncludeBounds(ROOT, gs, cs, len, method) :
        gs \in 0..MaxOff, cs \in 0..MaxOff, len \in 0..(MaxOff + 1),
        method \in {"DTS", "CPP"}}

\* One bound, or a bound and the included file's bound that follows it.
SplitVectors ==
    {<<b>> : b \in SplitBound}
        \cup {<<b, IncludeBounds(B, end(b), 0, 1, "DTS")>> : b \in SplitBound}

SplitCalls ==
    {[op |-> "split_bounds", bounds |-> v, start |-> st, end |-> st + n,
      offset |-> off] :
        v \in SplitVectors, st \in 0..(MaxOff + 2), n \in 0..MaxOff,
        off \in 0..MaxOff}

\* split_bounds(bounds, start, end, offset) is called and returns (or panics).
SplitBounds ==
    /\ Active
    /\ Top.op = "split_bounds"
    /\ result' = Return_(Top, split_bounds(Top.bounds, Top.start, Top.end,
                                           Top.offset))
    /\ stack' = <<>>
    /\ UNCHANGED <<fs, err>>

MaxFlag == 5

\* `# digits "path"`, then a space and the flag's digits unless flag is
\* empty, then the line ending.
LinemarkerLine(digits, path, flag, eol) ==
    <<"#", " ">> \o digits \o <<" ", QUOTE>> \o path \o <<QUOTE>>
        \o (IF flag = <<>> THEN <<>> ELSE <<" ">> \o flag) \o eol

\* 2^64, which neither usize nor u64 holds.
TooLarge ==
    <<"1", "8", "4", "4", "6", "7", "4", "4", "0", "7",
      "3", "7", "0", "9", "5", "5", "1", "6", "1", "6">>

\* Linemarker lines with no flag or a flag 0..MaxFlag or too large a one,
\* with a line number that fits or does not, ended by "\n" or
\* "\r\n", at the end of the input or before more bytes.
LinemarkerCalls ==
    {[op |-> "parse_linemarker",
      input |-> LinemarkerLine(digits, path, flag, eol) \o follow,
      digits |-> digits, path |-> path, flag |-> flag, follow |-> follow] :
        digits \in {<<"1">>, <<"1", "2">>, TooLarge},
        path \in {<<"f">>, <<"<", "b", ">">>},
        flag \in {<<>>, TooLarge} \cup {<<DIGITS[f + 1]>> : f \in 0..MaxFlag},
        eol \in {<<NL>>, <<"\r", NL>>},
        follow \in {<<>>, <<"k">>}}

\* parse_linemarker(input) is called and returns (or panics).
ParseLinemarker ==
    /\ Active
    /\ Top.op = "parse_linemarker"
    /\ result' = Return_(Top, parse_linemarker(Top.input))
    /\ stack' = <<>>
    /\ UNCHANGED <<fs, err>>

MaxBounds == 3

RECURSIVE BoundsFrom(_, _)
\* Bounds laid out left to right from offset `at`: each entry of `shape` is
\* the gap before a bound and the bound's len.
BoundsFrom(shape, at) ==
    IF shape = <<>> THEN <<>>
    ELSE <<IncludeBounds(ROOT, at + shape[1][1], 0, shape[1][2], "DTS")>>
         \o BoundsFrom(Drop(shape, 1), at + shape[1][1] + shape[1][2])

\* Vectors sorted by (global_start, end) whose bounds do not overlap, with
\* gaps and empty bounds among them.
SortedVectors ==
    UNION {{BoundsFrom(shape, 0) : shape \in [1..n -> (0..1) \X (0..MaxOff)]} :
              n \in 0..MaxBounds}

SearchCalls ==
    {[op |-> "get_bounds_containing_offset", bounds |-> v, offset |-> k] :
        v \in SortedVectors, k \in 0..(MaxBounds * (MaxOff + 1))}

\* get_bounds_containing_offset(bounds, offset) is called and returns: the
\* index of the bound found, 0 for NotWithinBounds.
GetBoundsContainingOffset ==
    /\ Active
    /\ Top.op = "get_bounds_containing_offset"
    /\ result' = Return_(Top, get_bounds_containing_offset(Top.bounds, Top.offset))
    /\ stack' = <<>>
    /\ UNCHANGED <<fs, err>>

\* What a chunk scanned for linemarkers is made of: text, a linemarker for
\* line 2 of s, a linemarker for a file that does not exist, a line that
\* starts with "# " and is no linemarker, and a linemarker for a line s
\* does not have.
ChunkFragments ==
    << <<"k", NL>>, MarkerLine("2", S), MarkerLine("1", U),
       <<"#", " ", "x", NL>>, MarkerLine("9", S) >>

Chunks ==
    UNION {{Concat([k \in 1..n |-> ChunkFragments[pick[k]]]) :
               pick \in [1..n -> 1..Len(ChunkFragments)]} : n \in 0..MaxSegs}

\* The chunk follows `at` bytes of output, and the last bound, of method
\* CPP, starts where the chunk starts.
LinemarkersCalls ==
    {[op |-> "parse_linemarkers", buf |-> chunk,
      bounds |-> <<IncludeBounds(S, at, 0, Len(chunk), "CPP")>>,
      global_offset |-> at] :
        chunk \in Chunks, at \in {0, Len(MarkerLine("2", S))}}

\* parse_linemarkers(buf, &mut bounds, global_offset) is called and returns.
ParseLinemarkers ==
    /\ Active
    /\ Top.op = "parse_linemarkers"
    /\ result' = Return_(Top, parse_linemarkers(fs, Top.buf, Top.bounds,
                                                Top.global_offset))
    /\ stack' = <<>>
    /\ UNCHANGED <<fs, err>>

\* A buffer of text and newlines, a bound of either method on the file s
\* that lies within the buffer and starts anywhere in s, and an offset in
\* or out of the bound.
LookupBounds(q) ==
    {IncludeBounds(S, gs, cs, len, method) :
        gs \in 0..Len(q), cs \in 0..Len(SFile), len \in 0..Len(q),
        method \in {"DTS", "CPP"}}

LookupCalls ==
    UNION {{[op |-> "file_line_from_global", global_buffer |-> q, bound |-> b,
             offset |-> k] :
               b \in {x \in LookupBounds(q) : end(x) <= Len(q)}, k \in 0..Len(q)} :
              q \in LineBytes}

\* b.file_line_from_global(global_buffer, offset) is called and returns (or
\* panics).
FileLineFromGlobal ==
    /\ Active
    /\ Top.op = "file_line_from_global"
    /\ result' = Return_(Top, file_line_from_global(fs, Top.bound,
                                                    Top.global_buffer, Top.offset))
    /\ stack' = <<>>
    /\ UNCHANGED <<fs, err>>

(***************************************************************************)
(* Labeled (tree.rs)                                                       *)
(***************************************************************************)
MaxAdds == 3

LABELS == {"x", "y"}

\* Vec::contains
Contains(labels, label) == \E k \in 1..Len(labels) : labels[k] = label

\* impl Labeled for ReserveInfo: pushed unless the list holds the label.
ReserveInfo_add_label(self, label) ==
    [panic |-> FALSE,
     self |-> IF ~Contains(self.labels, label)
              THEN [self EXCEPT !.labels = Append(self.labels, label)]
              ELSE self]

\* impl Labeled for Node and for Property, alike: a panic on the Deleted
\* variant; on Existing, pushed if the list holds the label.
Existing_add_label(self, label) ==
    IF self.variant = "Deleted" THEN [panic |-> TRUE, self |-> self]
    ELSE [panic |-> FALSE,
          self |-> IF Contains(self.labels, label)
                   THEN [self EXCEPT !.labels = Append(self.labels, label)]
                   ELSE self]

Node_add_label(self, label) == Existing_add_label(self, label)

Property_add_label(self, label) == Existing_add_label(self, label)

\* Labeled::add_label, by the type of self.
add_label(self, label) ==
    CASE self.type = "ReserveInfo" -> ReserveInfo_add_label(self, label)
      [] self.type = "Node" -> Node_add_label(self, label)
      [] self.type = "Property" -> Property_add_label(self, label)

NoDuplicates(labels) ==
    \A j, k \in 1..Len(labels) : labels[j] = labels[k] => j = k

\* The objects labels are added to: of each type and variant, with a label
\* list that holds no label twice.
Labelables ==
    {[type |-> t[1], variant |-> t[2], labels |-> ls] :
        t \in {<<"ReserveInfo", "Existing">>, <<"Node", "Existing">>,
               <<"Node", "Deleted">>, <<"Property", "Existing">>,
               <<"Property", "Deleted">>},
        ls \in {q \in SeqsUpTo(LABELS, Cardinality(LABELS)) : NoDuplicates(q)}}

\* An object and the labels to add to it, one call after the other.
LabelCalls ==
    {[op |-> "add_label", self |-> o, pending |-> adds] :
        o \in Labelables, adds \in SeqsUpTo(LABELS, MaxAdds) \ {<<>>}}

\* self.add_label(label) is called with the next label and returns (or
\* panics); self is kept for the calls to come.
AddLabel ==
    /\ Active
    /\ Top.op = "add_label"
    /\ result' = Return_(Top, add_label(Top.self, Top.pending[1]))
    /\ stack' = IF add_label(Top.self, Top.pending[1]).panic
                   \/ Len(Top.pending) = 1
                THEN <<>>
                ELSE <<[Top EXCEPT !.self = add_label(Top.self, Top.pending[1]).self,
                                   !.pending = Drop(Top.pending, 1)]>>
    /\ UNCHANGED <<fs, err>>

Calls ==
    LineCalls \cup OffsetCalls \cup SplitCalls \cup LinemarkerCalls
        \cup SearchCalls \cup LinemarkersCalls \cup LookupCalls
        \cup LabelCalls

\* The files on disk are s and c; one call is to be made.
CallInit ==
    /\ fs = FileSystem(<<>>, <<>>)
    /\ stack \in {<<call>> : call \in Calls}
    /\ err = NoError
    /\ result = Running

CallNext ==
    \/ LineToByteOffset
    \/ ByteOffsetToLineCol
    \/ SplitBounds
    \/ ParseLinemarker
    \/ GetBoundsContainingOffset
    \/ ParseLinemarkers
    \/ FileLineFromGlobal
    \/ AddLabel

CallSpec == CallInit /\ [][CallNext]_vars

(***************************************************************************)
(* Claims on the functions called on their own (CallSpec)                  *)
(***************************************************************************)
Called(op) == result.status = "returned" /\ result.call.op = op

InVector(b, v) == \E i \in 1..Len(v) : v[i] = b

\* What C11 says a bound b straddling the split becomes: b cut at `start_`,
\* and its remainder.
Truncated(b, start_) == [b EXCEPT !.len = start_ - b.global_start]

RemainderOf(b, start_, end_, offset) ==
    IncludeBounds(b.path, end_, b.child_start + (start_ - b.global_start) + offset,
                  (b.global_start + b.len) - start_, b.method)

Straddles(b, start_) == b.global_start < start_ /\ start_ <= b.global_start + b.len

\* C11: split_bounds cuts every bound b with b.global_start < start <= b.end
\* at start and adds a remainder with b's path and method, global_start =
\* end, child_start = b.child_start + (start - b.global_start) + offset and
\* len = (b's end before the call) - start, whatever b.child_start and
\* b.global_start are.
C11_SplitRemainder ==
    (Called("split_bounds") /\ ~result.val.panic) =>
        \A k \in 1..Len(result.call.bounds) :
            Straddles(result.call.bounds[k], result.call.start) =>
                /\ InVector(Truncated(result.call.bounds[k], result.call.start),
                            result.val.bounds)
                /\ InVector(RemainderOf(result.call.bounds[k], result.call.start,
                                        result.call.end, result.call.offset),
                            result.val.bounds)

\* Offsets (0-based) of the newline bytes of s.
NewlineOffsets(s) == {p \in 0..(Len(s) - 1) : s[p + 1] = NL}

\* C12: for a line n with 1 <= n <= 1 + (number of newlines in s),
\* line_to_byte_offset(s, n) succeeds and byte_offset_to_line_col of the
\* offset it gives is (n, 1).
C12_LineOffsetRoundTrip ==
    (/\ Called("line_to_byte_offset")
     /\ 1 <= result.call.line
     /\ result.call.line <= 1 + Cardinality(NewlineOffsets(result.call.bytes)))
    => /\ result.val.ok
       /\ ~result.val.panic
       /\ byte_offset_to_line_col(result.call.bytes, result.val.val)
              = <<result.call.line, 1>>

\* C12 witness: the offset of a third line, past two newlines, was asked for
\* and given.
C12_Witness ==
    /\ Called("line_to_byte_offset")
    /\ result.call.line = 3
    /\ result.val.ok
    /\ result.val.val = Len(result.call.bytes)
    /\ result.call.bytes[1] = "a"

\* The offset of the j-th (1-based) newline byte of s.
NewlineAt(s, j) ==
    CHOOSE p \in NewlineOffsets(s) :
        Cardinality({q \in NewlineOffsets(s) : q < p}) = j - 1

\* C13: line_to_byte_offset gives 0 for line 1 on any sequence, one past the
\* (line-1)-th newline for line >= 2, and fails, with an error and never a
\* panic, exactly when the sequence has fewer than line - 1 newlines.
C13_LineToByteOffset ==
    Called("line_to_byte_offset") =>
        /\ ~result.val.panic
        /\ result.val.ok
               <=> Cardinality(NewlineOffsets(result.call.bytes))
                       >= result.call.line - 1
        /\ (result.call.line = 1) => result.val.val = 0
        /\ (result.call.line >= 2 /\ result.val.ok) =>
               result.val.val
                   = NewlineAt(result.call.bytes, result.call.line - 1) + 1

\* The newlines of s at offsets strictly below k.
NewlinesBelow(s, k) == {p \in NewlineOffsets(s) : p < k}

\* C14: byte_offset_to_line_col gives line = 1 + the number of newlines
\* strictly before offset, and col = offset - (the last such newline's
\* offset), or offset + 1 when there is none; a newline byte is on the line
\* it ends.
C14_ByteOffsetToLineCol ==
    Called("byte_offset_to_line_col") =>
        /\ result.val[1]
               = 1 + Cardinality(NewlinesBelow(result.call.bytes, result.call.offset))
        /\ NewlinesBelow(result.call.bytes, result.call.offset) = {}
               => result.val[2] = result.call.offset + 1
        /\ \A p \in NewlinesBelow(result.call.bytes, result.call.offset) :
               (\A q \in NewlinesBelow(result.call.bytes, result.call.offset) : q <= p)
                   => result.val[2] = result.call.offset - p

\* C14 witness: the offset asked for is that of a newline byte that ends a
\* second line.
C14_Witness ==
    /\ Called("byte_offset_to_line_col")
    /\ result.call.offset \in NewlineOffsets(result.call.bytes)
    /\ NewlinesBelow(result.call.bytes, result.call.offset) # {}
    /\ result.val = <<2, 2>>

\* The number the digits of a call spell, and the flag its flag digit names.
NumberOf(digits) == IF digits = <<"1">> THEN 1 ELSE 12

FlagNamed(flag) ==
    CASE flag = <<>> -> "None"
      [] flag = <<"1">> -> "Start"
      [] flag = <<"2">> -> "Return"
      [] flag = <<"3">> -> "System"
      [] flag = <<"4">> -> "Extern"

WellFormedFlags == {<<>>, <<"1">>, <<"2">>, <<"3">>, <<"4">>}

\* C15: on a line `# N "path"`, with or without a space and a flag digit
\* 1..4, ended by a line ending, parse_linemarker consumes the whole line
\* and gives Linemarker{child_line: N, path, flag}: None without a flag,
\* Start, Return, System, Extern for 1, 2, 3, 4.
C15_ParseLinemarker ==
    (Called("parse_linemarker") /\ result.call.flag \in WellFormedFlags
        /\ result.call.digits # TooLarge) =>
        /\ result.val.st = "Done"
        /\ result.val.rem = result.call.follow
        /\ result.val.out = [child_line |-> NumberOf(result.call.digits),
                             path |-> result.call.path,
                             flag |-> FlagNamed(result.call.flag)]

\* C15 witness: `# 12 "f" 2` before more bytes has been parsed to line 12
\* with flag Return.
C15_Witness ==
    /\ Called("parse_linemarker")
    /\ result.call.digits = <<"1", "2">>
    /\ result.call.flag = <<"2">>
    /\ result.call.follow = <<"k">>
    /\ result.val.st = "Done"
    /\ result.val.out.flag = "Return"
    /\ result.val.out.child_line = 12

\* C18: on a linemarker line whose flag is a number outside 1..4,
\* parse_linemarker returns an error: the line is not accepted with the
\* flag dropped, and the unreachable!() arm does not abort the program.
C18_FlagOutOfRange ==
    (Called("parse_linemarker") /\ result.call.flag \notin WellFormedFlags) =>
        result.val.st = "Error"

\* C16: on a vector sorted by (global_start, end) whose bounds do not
\* overlap, empty bounds allowed, get_bounds_containing_offset returns a
\* bound with global_start <= offset < end when there is one and
\* NotWithinBounds when there is none, as a scan of the vector would, and
\* the comparator never reaches unreachable!().
C16_BoundsContainingOffset ==
    Called("get_bounds_containing_offset") =>
        /\ Containing(result.call.bounds, result.call.offset) = {}
               => result.val = 0
        /\ Containing(result.call.bounds, result.call.offset) # {}
               => result.val \in Containing(result.call.bounds, result.call.offset)
        /\ \A i \in 1..Len(result.call.bounds) :
               Comparator(result.call.bounds[i], result.call.offset) # "unreachable"

\* C16 witness: the bound found is the last of three, behind an empty bound
\* that starts at the offset looked up.
C16_Witness ==
    /\ Called("get_bounds_containing_offset")
    /\ Len(result.call.bounds) = 3
    /\ result.val = 3
    /\ result.call.bounds[2].len = 0
    /\ result.call.bounds[2].global_start = result.call.offset

\* C16 second witness: an offset in a gap between two bounds is in none.
C16_WitnessGap ==
    /\ Called("get_bounds_containing_offset")
    /\ Len(result.call.bounds) = 2
    /\ end(result.call.bounds[1]) <= result.call.offset
    /\ result.call.offset < start(result.call.bounds[2])
    /\ result.val = 0

\* A bound split at its left edge, shifted by end - start and shrunk by
\* `by`.
Shifted(b, start_, end_, by) ==
    [b EXCEPT !.global_start = b.global_start + (end_ - start_),
              !.len = b.len - by]

\* The bounds of the call that the split cuts in two.
Straddlers ==
    {k \in 1..Len(result.call.bounds) :
        Straddles(result.call.bounds[k], result.call.start)}

\* C17 as stated: split_bounds shifts every bound with global_start == start
\* by end - start and shrinks its len by that same end - start (where the
\* bound is that long), and adds no remainder for it.
C17_LeftEdgeSameAmount ==
    (Called("split_bounds") /\ ~result.val.panic) =>
        /\ \A k \in 1..Len(result.call.bounds) :
               (/\ result.call.bounds[k].global_start = result.call.start
                /\ result.call.bounds[k].len >= result.call.end - result.call.start)
               =>  InVector(Shifted(result.call.bounds[k], result.call.start,
                                    result.call.end,
                                    result.call.end - result.call.start),
                            result.val.bounds)
        /\ Len(result.val.bounds)
               = Len(result.call.bounds) + Cardinality(Straddlers)

\* C17 amended: split_bounds shifts every bound with global_start == start
\* by end - start and shrinks its len by `offset`, the length of the
\* directive, and adds no remainder for it; the call panics exactly when
\* such a bound is shorter than `offset`.
C17_LeftEdgeShrunkByOffset ==
    Called("split_bounds") =>
        /\ result.val.panic
               <=> \E k \in 1..Len(result.call.bounds) :
                       /\ result.call.bounds[k].global_start = result.call.start
                       /\ result.call.bounds[k].len < result.call.offset
        /\ ~result.val.panic =>
               /\ \A k \in 1..Len(result.call.bounds) :
                      result.call.bounds[k].global_start = result.call.start =>
                          InVector(Shifted(result.call.bounds[k], result.call.start,
                                           result.call.end, result.call.offset),
                                   result.val.bounds)
               /\ Len(result.val.bounds)
                      = Len(result.call.bounds) + Cardinality(Straddlers)

\* C17 witness: a bound of len 3 that starts at the split has been shifted
\* by 1 and shrunk by 2.
C17_Witness ==
    /\ Called("split_bounds")
    /\ ~result.val.panic
    /\ Len(result.call.bounds) = 1
    /\ result.call.bounds[1].global_start = result.call.start
    /\ result.call.bounds[1].len = 3
    /\ result.call.end - result.call.start = 1
    /\ result.call.offset = 2
    /\ result.val.bounds[1].len = 1
    /\ result.val.bounds[1].global_start = result.call.start + 1

(***************************************************************************)
(* Further claims on include_files (Spec)                                  *)
(***************************************************************************)
\* The linemarkers that stand anywhere in the bytes s.
MarkersIn(s) ==
    {parse_linemarker(Drop(s, n)).out :
        n \in {k \in 0..Len(s) : parse_linemarker(Drop(s, k)).st = "Done"}}

\* The offsets in the file `path` of the lines that linemarkers of the files
\* on disk name in it.
NamedLineStarts(path) ==
    {line_to_byte_offset(fs[path], m.child_line).val :
        m \in {x \in UNION {MarkersIn(fs[f]) : f \in DOMAIN fs} :
                  /\ x.path = path
                  /\ x.child_line >= 1
                  /\ line_to_byte_offset(fs[path], x.child_line).ok}}

\* C19: every CPP bound include_files returns, whether opened by the first
\* linemarker, by a later one, or left as a remainder by split_bounds, has
\* as child_start the offset, in the bound's file as it is on disk, of the
\* start of the line a linemarker names.
C19_CppChildStart ==
    ResultOk =>
        \A i \in 1..Len(result.bounds) :
            (result.bounds[i].method = "CPP" /\ result.bounds[i].path \in DOMAIN fs)
                => result.bounds[i].child_start \in NamedLineStarts(result.bounds[i].path)

(***************************************************************************)
(* Claims on parse_linemarkers called on its own (CallSpec)                *)
(***************************************************************************)
RECURSIVE MarkersFrom(_, _), MarkerAt(_, _, _)
\* The linemarker lines of buf from offset pos on, in order: where each
\* begins, where it ends, and what it says.
MarkersFrom(buf, pos) ==
    IF pos >= Len(buf) THEN <<>>
    ELSE MarkerAt(buf, pos, parse_linemarker(Drop(buf, pos)))

MarkerAt(buf, pos, lm) ==
    IF lm.st = "Done"
    THEN <<[at |-> pos, after |-> Len(buf) - Len(lm.rem), marker |-> lm.out]>>
         \o MarkersFrom(buf, Len(buf) - Len(lm.rem))
    ELSE MarkersFrom(buf, pos + 1)

\* What C20 says of the bounds left by a pass over a chunk whose linemarker
\* lines are ms.
MarkersOpenBounds(ms, call, bounds) ==
    /\ Len(bounds) = Len(call.bounds) + Len(ms)
    /\ \A j \in 1..Len(ms) :
           /\ j + 1 <= Len(bounds)
           /\ end(bounds[j]) = call.global_offset + ms[j].at
           /\ bounds[j + 1].global_start = call.global_offset + ms[j].after
           /\ bounds[j + 1].path = ms[j].marker.path
           /\ bounds[j + 1].method = "CPP"
    /\ ms # <<>> =>
           bounds[Len(bounds)].len = Len(call.buf) - ms[Len(ms)].after

\* C20: in a region entered through CPP, for every linemarker line of the
\* scanned bytes, those after a "# " that is no linemarker too, the pass
\* ends the most recent bound at the marker's first byte in the output and
\* pushes a CPP bound that starts just past the marker line, has the
\* marker's path and, until a later marker ends it, as len the bytes left
\* of the chunk after the marker.
C20_LinemarkerPass ==
    Called("parse_linemarkers") =>
        /\ result.val.err = NoError
        /\ MarkersOpenBounds(MarkersFrom(result.call.buf, 0), result.call,
                             result.val.bounds)

(***************************************************************************)
\* The first subtraction of the CPP branch below zero: g_line - s_line.
LineBelowZero(g, s) == g[1] < s[1]

\* A subtraction of the column below zero: g_col - s_col and then - c_col on
\* the same line, g_col - c_col on a later one.
ColBelowZero(g, s, c) ==
    IF g[1] = s[1] THEN g[2] < s[2] \/ g[2] - s[2] < c[2] ELSE g[2] < c[2]

\* The subtractions of the CPP branch for a call, left to right.
StaysUnsigned(call) ==
    /\ ~LineBelowZero(byte_offset_to_line_col(call.global_buffer, call.offset),
                      byte_offset_to_line_col(call.global_buffer,
                                              call.bound.global_start))
    /\ ~ColBelowZero(byte_offset_to_line_col(call.global_buffer, call.offset),
                     byte_offset_to_line_col(call.global_buffer,
                                             call.bound.global_start),
                     byte_offset_to_line_col(fs[call.bound.path],
                                             call.bound.child_start))

InCppBound(call) ==
    /\ call.bound.method = "CPP"
    /\ call.bound.global_start <= call.offset
    /\ call.offset < end(call.bound)

\* C21: for a CPP bound and every offset with global_start <= offset < end,
\* the first byte of the bound among them, file_line_from_global computes
\* its line and col with no unsigned subtraction going below zero, and the
\* col it returns is at least 1.
C21_CppLookupStaysUnsigned ==
    (Called("file_line_from_global") /\ InCppBound(result.call)) =>
        /\ StaysUnsigned(result.call)
        /\ result.val.st = "Ok"
        /\ result.val.val[2] >= 1

(***************************************************************************)
(* The bounds a call holds (Spec)                                          *)
(***************************************************************************)
\* The bytes the next linemarker pass of a frame scans: what precedes the
\* next directive, or all that is left.
ScannedChunk(f) ==
    IF find_include(f.buf).st = "Done" THEN find_include(f.buf).out.pre ELSE f.buf

\* The linemarker pass the top frame is about to make leaves no fewer bounds
\* than it is given.
PassKeepsBounds ==
    (Active /\ Top.pc = "scan") =>
        Len(parse_linemarkers(fs, ScannedChunk(Top), Top.bounds,
                              Len(Top.buffer)).bounds) >= Len(Top.bounds)

\* The split the caller of the returning frame is about to make leaves no
\* fewer bounds than it is given.
SplitKeepsBounds ==
    (Active /\ Top.pc = "ret" /\ Len(stack) > 1 /\ Top.bounds # <<>>) =>
        Len(split_bounds(stack[Len(stack) - 1].bounds,
                         Top.bounds[1].global_start,
                         end(Top.bounds[Len(Top.bounds)]),
                         stack[Len(stack) - 1].eaten_len).bounds)
            >= Len(stack[Len(stack) - 1].bounds)

\* C22: every invocation of _include_files holds at least one bound from
\* its start bound on, so also when it returns Ok and also for an empty
\* include target; split_bounds and the linemarker pass never leave fewer
\* bounds than they are given; so include_files never fails with
\* NoBoundReturned, and parse_linemarkers never finds the vector empty.
C22_AlwaysABound ==
    /\ \A i \in 1..Len(stack) : stack[i].pc # "open" => stack[i].bounds # <<>>
    /\ result.status = "Ok" => result.bounds # <<>>
    /\ PassKeepsBounds
    /\ SplitKeepsBounds
    /\ err.kind # "NoBoundReturned"
    /\ result.err.kind # "NoBoundReturned"

\* include_files has returned Ok for a root that includes the empty file b
\* after a linemarker pass that opened a bound, and b has its one bound of
\* len 0 among the bounds.
C22_Witness ==
    /\ ResultOk
    /\ fs[B] = <<>>
    /\ \E k \in 1..Len(result.bounds) :
           result.bounds[k].path = B /\ result.bounds[k].len = 0
    /\ \E k \in 1..Len(result.bounds) : result.bounds[k].method = "CPP"

(***************************************************************************)
(* Termination (LiveSpec)                                                  *)
(***************************************************************************)
\* C23: whatever the files are, a call of include_files eventually returns
\* Ok or returns Err; the scan loops and the recursion end, also when a
\* file names itself, directly or through other files, in a directive.
C23_ReturnsOkOrErr == <>(result.status \in {"Ok", "Err"})

\* The same with a panic counted as a way to fail.
C23_ReturnsOrPanics == <>(result.status \in {"Ok", "Err", "Panic"})

\* A file of the model names itself: b directly, or b through the root.
NamesItself ==
    /\ FindSubstring(fs[ROOT], Directive(B)) # -1
    /\ \/ FindSubstring(fs[B], Directive(B)) # -1
       \/ FindSubstring(fs[B], Directive(ROOT)) # -1

\* Without such a file every call returns or panics, and only with one is
\* the stack ever used up.
C23_AcyclicReturns ==
    /\ NamesItself \/ C23_ReturnsOrPanics
    /\ [](result.status = "Aborted" => NamesItself)

(***************************************************************************)
(* Labels (CallSpec)                                                       *)
(***************************************************************************)
\* add_label has just returned for an object that takes labels.
LabelAdded ==
    /\ Called("add_label")
    /\ result.call.self.variant = "Existing"

\* C24: for a ReserveInfo, an existing Node and an existing Property, along
\* any sequence of add_label calls that starts from a label list holding no
\* label twice: after add_label(l) the list holds l, and it holds no label
\* twice.
C24_LabelsAddedOnce ==
    LabelAdded =>
        /\ ~result.val.panic
        /\ Contains(result.val.self.labels, result.call.pending[1])
        /\ NoDuplicates(result.val.self.labels)

\* The same of ReserveInfo alone.
C24_ReserveInfoLabels ==
    (LabelAdded /\ result.call.self.type = "ReserveInfo") =>
        /\ Contains(result.val.self.labels, result.call.pending[1])
        /\ NoDuplicates(result.val.self.labels)

====
